---- MODULE Spec2Model ----
(***************************************************************************)
(* A model of the settings resolution and output control of the dvln tool  *)
(* (package cmds): a run of Execute() over an argument vector, an          *)
(* environment and a user config file, and the exit of the process.  The   *)
(* run is single threaded; its stages are the calls Execute makes, in the  *)
(* order it makes them.                                                    *)
(*                                                                         *)
(* Every value of a setting is a string ("true"/"false" for a boolean),    *)
(* as it is in the environment and on the command line.                    *)
(***************************************************************************)
EXTENDS Integers, Sequences, FiniteSets, TLC

VARIABLES
    pc,               \* the stage Execute() is about to run
    args,             \* the argument vector: [sub, opts]
    environ,          \* DVLN_<NAME> environment variables of the settings
    ctlEnv,           \* the control variables read with os.Getenv
    cfgFile,          \* what the user's config file holds
    config,           \* 'globs' config layer (filled by ReadInConfig)
    pflags,           \* 'globs' pflags layer: the flag names bound by SetPFlags
    flags,            \* the flag objects: [name, shorthand, defValue, value, changed]
    override,         \* 'globs' layer written by globs.Set
    screenThresh,     \* out.Threshold(out.ForScreen)
    logThresh,        \* out.Threshold(out.ForLogfile)
    logFile,          \* the logfile writer's target ("" when there is none)
    tmpLogfileActive, \* package variable of the same name
    tmpLogfileMsg,    \* package variable of the same name
    storedNote,       \* api.SetStoredNote: the note kept for the JSON response
    deferFunc,        \* out.SetDeferFunc: is doBeforeExit registered
    tmpCount,         \* how many temp log files out.UseTempLogFile created
    currentCmd,       \* package variable of the same name
    formatter,        \* the levels handleLookJSONMsgs is registered for
    issues,           \* the numeric codes of the issues reported so far
    exitVal,          \* what Execute() returned ("" while it runs)
    dispatched,       \* the command whose Run function dispatch called
    pass,             \* what the latest adjustOutLevels() call saw and did
    msgs,             \* the messages handed to 'out', as they came out of it
    storedWarnings,   \* api.SetStoredNonFatalWarning: the warnings kept
    shown,            \* what showCLIPkgOutput printed, one entry per call
    gomaxprocs,       \* runtime.GOMAXPROCS: the parallelism limit in force
    exitNote,         \* what doBeforeExit wrote when the process exited
    later,            \* the argument vectors of the Execute() calls to come
    cfgErr,           \* does globs.ReadInConfig fail on the user's config file
    reparseOK,        \* the flag sets whose SetDefValueReparseOK mode is on
    prefixMatching,   \* cli.EnablePrefixMatching
    hist              \* what this Execute() call did so far, in order

vars == <<pc, args, environ, ctlEnv, cfgFile, config, pflags, flags, override,
          screenThresh, logThresh, logFile, tmpLogfileActive, tmpLogfileMsg,
          storedNote, deferFunc, tmpCount, currentCmd, formatter, issues,
          exitVal, dispatched, pass, msgs, storedWarnings, shown, gomaxprocs,
          exitNote, later, cfgErr, reparseOK, prefixMatching, hist>>

None == "<unset>"

(***************************************************************************)
(* The setting registry (cmdglobs.go).                                     *)
(***************************************************************************)
Keys == {"debug", "verbose", "quiet", "record", "look", "globs", "interact",
         "version", "codebase", "pkg", "wkspcdir", "screenlevel", "logfilelevel",
         "help", "jobs", "serve"}

Default(k) ==
    CASE k \in {"debug", "verbose", "quiet", "interact", "version", "help",
                "serve"} -> "false"
      [] k = "record" -> "off"
      [] k = "jobs" -> "all"
      [] k = "look" -> "text"
      [] k \in {"screenlevel", "logfilelevel"} -> "info"
      [] k = "wkspcdir" -> "."
      [] OTHER -> ""    \* globs, codebase, pkg

Scope_AllCLIGlobal(k) ==
    IF k \in {"screenlevel", "logfilelevel"} THEN "BasicGlobal" ELSE "CLIGlobal"

Scope(k) ==
    CASE k \in {"screenlevel", "logfilelevel"} -> "BasicGlobal"
      [] k \in {"globs", "pkg", "version", "wkspcdir"} -> "CLIOnlyGlobal"
      [] OTHER -> "CLIGlobal"

(***************************************************************************)
(* The commands and their flags (setup*CmdCLIArgs).                        *)
(***************************************************************************)
RootName == "dvln"
SubCommands == {"get", "update", "version"}

PersistentFlags == {"debug", "verbose", "quiet", "record", "look", "globs",
                    "interact", "help", "jobs"}
LocalFlags(c) ==
    CASE c = RootName -> {"version", "serve"}
      [] c = "get" -> {"codebase", "pkg", "wkspcdir"}
      [] c = "update" -> {"pkg"}
      [] OTHER -> {}
FlagNames == PersistentFlags \cup UNION {LocalFlags(c) : c \in SubCommands \cup {RootName}}

\* c.Flags() once the parents' persistent flags are merged in
FlagSet(c) == PersistentFlags \cup LocalFlags(c)

Shorthand(f) ==
    CASE f = "debug" -> "D" [] f = "verbose" -> "v" [] f = "quiet" -> "q"
      [] f = "record" -> "R" [] f = "look" -> "L" [] f = "globs" -> "G"
      [] f = "interact" -> "i" [] f = "version" -> "V" [] f = "codebase" -> "c"
      [] f = "pkg" -> "p" [] f = "wkspcdir" -> "w" [] f = "help" -> "h"
      [] f = "jobs" -> "J" [] f = "serve" -> "S"

(***************************************************************************)
(* The layered resolver.  globs.Get consults, first match wins: a bound    *)
(* flag the user changed, the value given to globs.Set, the config file,   *)
(* the environment, the registered default.  The config file and the       *)
(* environment are consulted only for a scope that admits them.            *)
(***************************************************************************)
GetFrom(k, pf, fl, ov, cf, en) ==
    IF k \in pf /\ fl[k].changed THEN fl[k].value
    ELSE IF ov[k] # None THEN ov[k]
    ELSE IF Scope(k) \in {"CLIGlobal", "BasicGlobal"} /\ cf[k] # None THEN cf[k]
    ELSE IF Scope(k) \in {"CLIGlobal", "BasicGlobal"} /\ en[k] # None THEN en[k]
    ELSE Default(k)

Get(k) == GetFrom(k, pflags, flags, override, config, environ)
GetBool(k) == Get(k) = "true"

NoLayer == [k \in Keys |-> None]

(***************************************************************************)
(* The 'out' package: output levels and the two thresholds.                *)
(***************************************************************************)
Levels == {"LevelTrace", "LevelDebug", "LevelVerbose", "LevelInfo",
           "LevelNote", "LevelIssue", "LevelError", "LevelFatal",
           "LevelDiscard"}

\* out.LevelString2Level: the level a level name stands for
LevelString2Level(s) ==
    CASE s = "trace" -> "LevelTrace"
      [] s = "debug" -> "LevelDebug"
      [] s = "verbose" -> "LevelVerbose"
      [] s = "info" -> "LevelInfo"
      [] s = "note" -> "LevelNote"
      [] s = "issue" -> "LevelIssue"
      [] s = "error" -> "LevelError"
      [] s = "fatal" -> "LevelFatal"
      [] OTHER -> "LevelDiscard"

\* the order of the levels (out.Level is an integer type)
LevelRank(l) ==
    CASE l = "LevelTrace" -> 0 [] l = "LevelDebug" -> 1 [] l = "LevelVerbose" -> 2
      [] l = "LevelInfo" -> 3 [] l = "LevelNote" -> 4 [] l = "LevelIssue" -> 5
      [] l = "LevelError" -> 6 [] l = "LevelFatal" -> 7 [] OTHER -> 8

\* PKG_OUT_NO_EXIT: a dying message is written and the call returns
NoExit == ctlEnv.PKG_OUT_NO_EXIT = "1"

\* is a message of this level written to a target with this threshold
Passes(level, thresh) ==
    thresh # "LevelDiscard" /\ LevelRank(level) >= LevelRank(thresh)

(***************************************************************************)
(* Paths: strings.HasPrefix, the "~" shorthand and path.AbsPathify.        *)
(***************************************************************************)
HasPrefix(s, p) == Len(s) >= Len(p) /\ SubSeq(s, 1, Len(p)) = p

\* adjustOutLevels, lines 607-612: a leading home directory becomes "~"
TrimHome(record, homeDir) ==
    IF homeDir # "" /\ HasPrefix(record, homeDir \o "/")
    THEN "~" \o SubSeq(record, Len(homeDir) + 1, Len(record))
    ELSE record

\* path.AbsPathify: a leading "~" becomes the home directory
AbsPathify(p, homeDir) ==
    IF HasPrefix(p, "~/") THEN homeDir \o SubSeq(p, 2, Len(p)) ELSE p

\* out.UseTempLogFile("dvln."): the n-th temp file of the process
TempLogFile(tmpDir, n) == tmpDir \o "/dvln." \o ToString(n)

(***************************************************************************)
(* adjustOutLevels (dvln.go, lines 484-627), in the order of its           *)
(* statements.                                                             *)
(***************************************************************************)
LevelBranch_QuietFirst(d, v, q) ==
    IF q THEN "quiet"
    ELSE IF d /\ v THEN "trace"
    ELSE IF d THEN "debug"
    ELSE IF v THEN "verbose"
    ELSE "none"

\* lines 494-509: which branch of the if/else-if chain is taken
LevelBranch(d, v, q) ==
    IF d /\ v THEN "trace"
    ELSE IF d THEN "debug"
    ELSE IF v THEN "verbose"
    ELSE IF q THEN "quiet"
    ELSE "none"

\* lines 487-509: the screen threshold, lvl being the one of line 487
ScreenAfterBranch(b, lvl) ==
    CASE b = "trace" -> "LevelTrace"
      [] b = "debug" -> "LevelDebug"
      [] b = "verbose" -> "LevelVerbose"
      [] b = "quiet" -> "LevelError"
      [] OTHER -> lvl

LogAfterBranch_QuietBoth(b, cur) ==
    CASE b = "trace" -> "LevelTrace"
      [] b = "debug" -> "LevelDebug"
      [] b = "verbose" -> "LevelVerbose"
      [] b = "quiet" -> "LevelError"
      [] OTHER -> cur

\* lines 494-509: the logfile threshold (ForBoth sets it, ForScreen does not)
LogAfterBranch(b, cur) ==
    CASE b = "trace" -> "LevelTrace"
      [] b = "debug" -> "LevelDebug"
      [] b = "verbose" -> "LevelVerbose"
      [] OTHER -> cur

ScreenFlagsAfter_Always(b, cur) == IF b = "trace" THEN "debug" ELSE cur

\* lines 500-502: DVLN_SCREEN_FLAGS after the trace branch
ScreenFlagsAfter(b, cur) == IF b = "trace" /\ cur = "" THEN "debug" ELSE cur

\* lines 545-549: what is forwarded to PKG_OUT_SCREEN_FLAGS
Forwarded(flagsVal, cur) ==
    IF flagsVal # "" /\ flagsVal # "none" THEN flagsVal ELSE cur

\* line 565: is recording requested
Recording(record) == record # "" /\ record # "off"

\* lines 571-572: is a temp log file to be allocated now
NeedTempLog(record, active) == record \in {"temp", "tmp"} /\ ~active

ClearPFlag_Forgotten(pf, k) == pf

\* globs.ClearPFlag (line 600): the flag no longer decides the setting
ClearPFlag(pf, k) == pf \ {k}

\* lines 617-621: a logfile threshold never set starts at logfilelevel
LogThreshWhenRecording(cur, lvl) == IF cur = "LevelDiscard" THEN lvl ELSE cur

\* lines 624-626: DVLN_LOGFILE_OFF=1 discards the logfile output
LogThreshOff(cur, off) == IF off = "1" THEN "LevelDiscard" ELSE cur

adjustOutLevels ==
    LET d == GetBool("debug")
        v == GetBool("verbose")
        q == GetBool("quiet")
        b == LevelBranch(d, v, q)
        record == Get("record")
        look == Get("look")
        home == ctlEnv.HOME
        sflags == ScreenFlagsAfter(b, ctlEnv.DVLN_SCREEN_FLAGS)
        alloc == Recording(record) /\ NeedTempLog(record, tmpLogfileActive)
        tmpFile == TempLogFile(ctlEnv.TMPDIR, tmpCount + 1)
        tmpMsg == "Temp output logfile: " \o tmpFile
        named == Recording(record) /\ record \notin {"temp", "tmp"}
        short == TrimHome(record, home)
        log1 == LogAfterBranch(b, logThresh)
        log2 == IF Recording(record)
                THEN LogThreshWhenRecording(log1, LevelString2Level(Get("logfilelevel")))
                ELSE log1
        ov == IF alloc THEN [override EXCEPT !["record"] = tmpFile]
              ELSE IF named /\ short # record
                   THEN [override EXCEPT !["record"] = short]
                   ELSE override
        pf == IF alloc THEN ClearPFlag(pflags, "record") ELSE pflags
    IN  /\ screenThresh' = ScreenAfterBranch(b, LevelString2Level(Get("screenlevel")))
        /\ logThresh' = LogThreshOff(log2, ctlEnv.DVLN_LOGFILE_OFF)
        /\ ctlEnv' = [ctlEnv EXCEPT
                        !.DVLN_SCREEN_FLAGS = sflags,
                        !.PKG_OUT_SCREEN_FLAGS = Forwarded(sflags, @)]
        /\ tmpCount' = IF alloc THEN tmpCount + 1 ELSE tmpCount
        /\ tmpLogfileActive' = (tmpLogfileActive \/ alloc)
        /\ tmpLogfileMsg' = IF alloc
                            THEN (IF look = "json" THEN "" ELSE tmpMsg)
                            ELSE tmpLogfileMsg
        /\ storedNote' = IF alloc /\ look = "json"
                         THEN [msg |-> tmpMsg, code |-> "101", level |-> "LevelNote"]
                         ELSE storedNote
        /\ deferFunc' = (deferFunc \/ (alloc /\ look # "json"))
        /\ logFile' = IF alloc THEN tmpFile
                      ELSE IF named THEN AbsPathify(record, home)
                      ELSE logFile
        /\ override' = ov
        /\ pflags' = pf
        /\ pass' = [n |-> pass.n + 1,
                    branch |-> b,
                    debug |-> d, verbose |-> v, quiet |-> q,
                    screenlevel |-> Get("screenlevel"),
                    logfilelevel |-> Get("logfilelevel"),
                    record |-> record,
                    logBefore |-> logThresh,
                    screenFlagsBefore |-> ctlEnv.DVLN_SCREEN_FLAGS,
                    allocated |-> alloc,
                    loud |-> (pass.loud \/ d \/ v),
                    requests |-> Append(pass.requests, record),
                    records |-> Append(pass.records,
                                   GetFrom("record", pf, flags, ov, config, environ))]

(***************************************************************************)
(* The tolerant pre-pass: pushCLIOptsToGlobs (dvln.go, lines 414-450).     *)
(* args.opts is the sequence of the flags the user typed, each a           *)
(* [name, value]; args.sub is the command word ("dvln" when there is       *)
(* none).                                                                  *)
(***************************************************************************)
\* nothing done yet: the stages run, the commands whose flags the pre-pass
\* parsed, the steps of the setup*CmdCLIArgs calls of the reload
NoHist == [stages |-> <<>>, parsed |-> <<>>, reload |-> <<>>]

\* the call went through one more stage
Did(stage) == [hist EXCEPT !.stages = Append(@, stage)]

\* len(args): the program name, the command word if any, the flags
ArgsLen(a) == 1 + (IF a.sub = RootName THEN 0 ELSE 1) + Len(a.opts)

\* cli.EnablePrefixMatching: the subcommands whose name starts with the word
PrefixMatches(word) == {c \in SubCommands : HasPrefix(c, word)}

\* c.Find(opts) with cli.EnablePrefixMatching at prefixOn: the command the
\* arguments name, seen from command c; a word that names no subcommand
\* leaves the search at c
FindWith(c, a, prefixOn) ==
    IF c # RootName THEN c
    ELSE IF a.sub \in SubCommands THEN a.sub
    ELSE IF prefixOn /\ Cardinality(PrefixMatches(a.sub)) = 1
         THEN CHOOSE x \in PrefixMatches(a.sub) : TRUE
         ELSE c

\* c.Find(opts) as the setting stands
Find(c, a) == FindWith(c, a, prefixMatching)

SetFlag(fl, f, val) == [fl EXCEPT ![f].value = val, ![f].changed = TRUE]

RECURSIVE ParseFlags_StopAtBadFlag(_, _, _)
ParseFlags_StopAtBadFlag(c, fl, opts) ==
    IF opts = <<>> THEN fl
    ELSE IF Head(opts).name \in FlagSet(c)
         THEN ParseFlags_StopAtBadFlag(c, SetFlag(fl, Head(opts).name, Head(opts).value),
                                       Tail(opts))
         ELSE fl

\* c.ParseFlags(flags) under flag.IgnoreError (lines 423, 436): a flag the
\* command does not know is skipped and the parse goes on
RECURSIVE ParseFlags(_, _, _)
ParseFlags(c, fl, opts) ==
    IF opts = <<>> THEN fl
    ELSE IF Head(opts).name \in FlagSet(c)
         THEN ParseFlags(c, SetFlag(fl, Head(opts).name, Head(opts).value), Tail(opts))
         ELSE ParseFlags(c, fl, Tail(opts))

\* globs.SetPFlags(c.Flags()), line 441
SetPFlags(pf, c) == pf \cup FlagSet(c)

\* lines 446-449: is the pre-pass repeated for the command found
Recurse_Never(c, cmd) == FALSE

Recurse(c, cmd) == c = RootName /\ cmd # RootName

\* the commands pushCLIOptsToGlobs is called on, from command c down
RECURSIVE Visited(_, _)
Visited(c, a) ==
    LET cmd == Find(c, a)
    IN  <<c>> \o (IF Recurse(c, cmd) THEN Visited(cmd, a) ELSE <<>>)

\* lines 423-436, once per command visited
RECURSIVE ParseAll(_, _, _)
ParseAll(cs, fl, opts) ==
    IF cs = <<>> THEN fl
    ELSE ParseAll(Tail(cs), ParseFlags(Head(cs), fl, opts), opts)

\* line 441, once per command visited
RECURSIVE BindAll(_, _)
BindAll(cs, pf) == IF cs = <<>> THEN pf ELSE BindAll(Tail(cs), SetPFlags(pf, Head(cs)))

pushCLIOptsToGlobs ==
    LET cmd == Find(RootName, args)
        cs == Visited(RootName, args)
    IN  /\ currentCmd' = IF currentCmd = "" THEN cmd ELSE currentCmd
        /\ flags' = ParseAll(cs, flags, args.opts)
        /\ pflags' = BindAll(cs, pflags)
        /\ hist' = [Did("prePass") EXCEPT !.parsed = cs]

\* prepCLIArgs, line 636: nothing but the program name
SkipPrePass_Never(a) == FALSE

SkipPrePass(a) == ArgsLen(a) = 1

(***************************************************************************)
(* The stages of Execute (dvln.go, lines 261-354).                         *)
(***************************************************************************)
\* prepCLIArgs, lines 636-639
PrepCLIArgs ==
    /\ pc = "prepCLIArgs"
    /\ IF ~SkipPrePass(args)
       THEN pushCLIOptsToGlobs
       ELSE UNCHANGED <<currentCmd, flags, pflags, hist>>
    /\ pc' = "earlyAdjust"
    /\ UNCHANGED <<cfgErr, reparseOK, prefixMatching>>
    /\ UNCHANGED <<msgs, storedWarnings, shown, gomaxprocs, exitNote, later>>
    /\ UNCHANGED <<args, environ, ctlEnv, cfgFile, config, override, screenThresh,
                   logThresh, logFile, tmpLogfileActive, tmpLogfileMsg, storedNote,
                   deferFunc, tmpCount, formatter, issues, exitVal, dispatched, pass>>

\* prepCLIArgs, line 645
EarlyAdjust ==
    /\ pc = "earlyAdjust"
    /\ adjustOutLevels
    /\ pc' = "scanUserConfigFile"
    /\ hist' = Did("earlyAdjust")
    /\ UNCHANGED <<cfgErr, reparseOK, prefixMatching>>
    /\ UNCHANGED <<msgs, storedWarnings, shown, gomaxprocs, exitNote, later>>
    /\ UNCHANGED <<args, environ, cfgFile, config, flags, currentCmd, formatter,
                   issues, exitVal, dispatched>>

\* scanUserConfigFile, lines 359-398: globs.ReadInConfig fills the config
\* layer; scanUserCfgAndReinit, lines 664-666: when the read fails it returns
\* the error at once, before the final adjustOutLevels and the reload
ScanUserConfigFile ==
    /\ pc = "scanUserConfigFile"
    /\ config' = IF cfgErr THEN config ELSE cfgFile
    /\ pc' = IF cfgErr THEN "setFormatter" ELSE "finalAdjust"
    /\ hist' = Did("configLoad")
    /\ UNCHANGED <<cfgErr, reparseOK, prefixMatching>>
    /\ UNCHANGED <<msgs, storedWarnings, shown, gomaxprocs, exitNote, later>>
    /\ UNCHANGED <<args, environ, ctlEnv, cfgFile, pflags, flags, override,
                   screenThresh, logThresh, logFile, tmpLogfileActive, tmpLogfileMsg,
                   storedNote, deferFunc, tmpCount, currentCmd, formatter, issues,
                   exitVal, dispatched, pass>>

\* scanUserCfgAndReinit, line 668
FinalAdjust ==
    /\ pc = "finalAdjust"
    /\ adjustOutLevels
    /\ pc' = "reloadCLIDefaults"
    /\ hist' = Did("finalAdjust")
    /\ UNCHANGED <<cfgErr, reparseOK, prefixMatching>>
    /\ UNCHANGED <<msgs, storedWarnings, shown, gomaxprocs, exitNote, later>>
    /\ UNCHANGED <<args, environ, cfgFile, config, flags, currentCmd, formatter,
                   issues, exitVal, dispatched>>

\* a flag registered again while SetDefValueReparseOK(true): the flag that
\* is there takes the new default
Reregister(fl, f, def) == [fl EXCEPT ![f].defValue = def]

ReloadDefault_Registered(f) == Default(f)

\* setup*CmdCLIArgs: the default a flag is registered with, globs.Get*(name)
ReloadDefault(f) == Get(f)

\* setup*CmdCLIArgs, lines 146-156: SetDefValueReparseOK(true) when reloading
ReparseOK(reload) == reload

\* the flag sets a setup*CmdCLIArgs function switches the mode of: c.Flags(),
\* and for the root c.PersistentFlags() too
OwnSets_FlagsOnly(c) == {c \o ".Flags"}

OwnSets(c) ==
    IF c = RootName THEN {c \o ".Flags", c \o ".PersistentFlags"} ELSE {c \o ".Flags"}

\* the flag set a setup*CmdCLIArgs function registers flag f on
SetOf(c, f) ==
    IF c = RootName /\ f \in PersistentFlags THEN c \o ".PersistentFlags"
    ELSE c \o ".Flags"

\* the flags a setup*CmdCLIArgs function registers
Registers(c) == IF c = RootName THEN FlagSet(c) ELSE LocalFlags(c)

\* one setup*CmdCLIArgs(c, reload) call on st = [flags, mode, panic, log]:
\* the mode switched on, the flags registered, the mode switched off;
\* registering a flag that exists panics unless the mode of its set is on
setupCmdCLIArgs(c, reload, st) ==
    LET on == IF ReparseOK(reload) THEN st.mode \cup OwnSets(c) ELSE st.mode
        refused == {f \in Registers(c) : SetOf(c, f) \notin on}
        fl == [f \in FlagNames |->
                  IF f \in Registers(c) \ refused
                  THEN Reregister(st.flags, f, ReloadDefault(f))[f]
                  ELSE st.flags[f]]
        off == IF reload THEN on \ OwnSets(c) ELSE on
    IN  [flags |-> fl, mode |-> off, panic |-> st.panic \/ refused # {},
         log |-> Append(st.log, [cmd |-> c, enabled |-> on,
                                 registered |-> {SetOf(c, f) : f \in Registers(c)},
                                 left |-> off])]

\* the setup*CmdCLIArgs calls of cs in turn
RECURSIVE SetupAll(_, _, _)
SetupAll(cs, reload, st) ==
    IF cs = <<>> THEN st
    ELSE SetupAll(Tail(cs), reload, setupCmdCLIArgs(Head(cs), reload, st))

\* reloadCLIDefaults, lines 684-703: every setup*CmdCLIArgs with reload=true
ReloadCLIDefaults ==
    /\ pc = "reloadCLIDefaults"
    /\ LET r == SetupAll(<<RootName, "get", "update", "version">>, TRUE,
                         [flags |-> flags, mode |-> reparseOK, panic |-> FALSE,
                          log |-> <<>>])
       IN  /\ reparseOK' = r.mode
           /\ hist' = [Did("reload") EXCEPT !.reload = r.log]
           /\ IF ~r.panic
              THEN /\ flags' = r.flags
                   /\ exitVal' = exitVal
                   /\ pc' = "setFormatter"
              ELSE /\ flags' = flags
                   /\ exitVal' = "panic"
                   /\ pc' = "done"
    /\ UNCHANGED <<cfgErr, prefixMatching>>
    /\ UNCHANGED <<msgs, storedWarnings, shown, gomaxprocs, exitNote, later>>
    /\ UNCHANGED <<args, environ, ctlEnv, cfgFile, config, pflags, override,
                   screenThresh, logThresh, logFile, tmpLogfileActive, tmpLogfileMsg,
                   storedNote, deferFunc, tmpCount, currentCmd, formatter, issues,
                   dispatched, pass>>

\* Execute, lines 276-288
SetFormatter ==
    /\ pc = "setFormatter"
    /\ formatter' = IF Get("look") = "json"
                    THEN {"LevelIssue", "LevelError", "LevelFatal"}
                    ELSE formatter
    /\ pc' = IF cfgErr THEN "fatalCfgErr" ELSE "dvlnFinalPrep"
    /\ UNCHANGED <<cfgErr, reparseOK, prefixMatching, hist>>
    /\ UNCHANGED <<msgs, storedWarnings, shown, gomaxprocs, exitNote, later>>
    /\ UNCHANGED <<args, environ, ctlEnv, cfgFile, config, pflags, flags, override,
                   screenThresh, logThresh, logFile, tmpLogfileActive, tmpLogfileMsg,
                   storedNote, deferFunc, tmpCount, currentCmd, issues, exitVal,
                   dispatched, pass>>

(***************************************************************************)
(* Messages.  A message handed to 'out' is [level, text, code, dying];     *)
(* 'out' passes it to the formatter registered for its level, if any,      *)
(* and writes what the formatter returns.                                  *)
(***************************************************************************)
Message(level, text, code, dying) ==
    [level |-> level, text |-> text, code |-> code, dying |-> dying]

\* api.NewMsg and api.FatalJSONMsg: the JSON error response for a message
FatalJSONMsg(msg, code, level) ==
    "{\"error\": {\"code\": " \o code \o ", \"level\": \"" \o level
        \o "\", \"message\": \"" \o msg \o "\"}}"

NoWarning == [msg |-> "", code |-> "", level |-> ""]

FormatMessage_NoLookCheck(msg, outLevel, code, dying, look) ==
    IF LevelRank(outLevel) < LevelRank("LevelIssue")
    THEN [msg |-> msg, suppress |-> {}, noPrefix |-> FALSE, warning |-> NoWarning]
    ELSE IF dying
         THEN [msg |-> FatalJSONMsg(msg, code, outLevel), suppress |-> {},
               noPrefix |-> TRUE, warning |-> NoWarning]
         ELSE [msg |-> "", suppress |-> {"screen", "logfile"}, noPrefix |-> TRUE,
               warning |-> [msg |-> msg, code |-> code, level |-> outLevel]]

\* handleLookJSONMsgs.FormatMessage, lines 843-864; look is the value of
\* globs.GetString("look") at the call (line 846)
FormatMessage(msg, outLevel, code, dying, look) ==
    IF look # "json" \/ LevelRank(outLevel) < LevelRank("LevelIssue")
    THEN [msg |-> msg, suppress |-> {}, noPrefix |-> FALSE, warning |-> NoWarning]
    ELSE IF dying
         THEN [msg |-> FatalJSONMsg(msg, code, outLevel), suppress |-> {},
               noPrefix |-> TRUE, warning |-> NoWarning]
         ELSE [msg |-> "", suppress |-> {"screen", "logfile"}, noPrefix |-> TRUE,
               warning |-> [msg |-> msg, code |-> code, level |-> outLevel]]

\* is the interceptor called for a message of this level
Hooked(level, fmtr) == level \in fmtr

\* 'out' handling one message: the entry kept in msgs
Handle(m, fmtr, look) ==
    LET r == IF Hooked(m.level, fmtr)
             THEN FormatMessage(m.text, m.level, m.code, m.dying, look)
             ELSE [msg |-> m.text, suppress |-> {}, noPrefix |-> FALSE,
                   warning |-> NoWarning]
    IN  [level |-> m.level, text |-> m.text, code |-> m.code, dying |-> m.dying,
         look |-> look, hooked |-> Hooked(m.level, fmtr),
         out |-> r.msg, suppress |-> r.suppress, noPrefix |-> r.noPrefix,
         warning |-> r.warning]

Warned_Never(sw, entry) == sw

\* the warnings stored once 'out' has handled the message
Warned(sw, entry) == IF entry.warning = NoWarning THEN sw ELSE Append(sw, entry.warning)

(***************************************************************************)
(* dvlnFinalPrep (dvln.go, lines 714-822).                                 *)
(***************************************************************************)
NumCPU == 4

Digits == "0123456789"

IsDigit(ch) == \E d \in 1..Len(Digits) : SubSeq(Digits, d, d) = ch

DigitVal(ch) == (CHOOSE d \in 1..Len(Digits) : SubSeq(Digits, d, d) = ch) - 1

\* the digits of a numeral, an optional sign taken off
Unsigned(s) ==
    IF Len(s) > 0 /\ SubSeq(s, 1, 1) \in {"-", "+"} THEN SubSeq(s, 2, Len(s)) ELSE s

\* strconv.Atoi returns no error: an optional sign, then decimal digits only
IsInt(s) ==
    /\ Len(Unsigned(s)) > 0
    /\ \A i \in 1..Len(Unsigned(s)) : IsDigit(SubSeq(Unsigned(s), i, i))

RECURSIVE DecimalValue(_)
DecimalValue(u) ==
    IF Len(u) = 0 THEN 0
    ELSE 10 * DecimalValue(SubSeq(u, 1, Len(u) - 1)) + DigitVal(SubSeq(u, Len(u), Len(u)))

\* cast.ToInt of a string strconv.Atoi accepts
ToInt(s) ==
    IF Len(s) > 0 /\ SubSeq(s, 1, 1) = "-" THEN 0 - DecimalValue(Unsigned(s))
    ELSE DecimalValue(Unsigned(s))

\* runtime.GOMAXPROCS(n): the setting changes only when n is at least 1
GOMAXPROCS(cur, n) == IF n < 1 THEN cur ELSE n

\* lines 735-739: is the jobs value refused
JobsRefused(jobs) == jobs # "" /\ jobs # "all" /\ ~IsInt(jobs)

JobsLimit_Unclamped(jobs, cur) ==
    IF jobs # "" /\ jobs # "all" THEN GOMAXPROCS(cur, ToInt(jobs))
    ELSE GOMAXPROCS(cur, NumCPU)

\* lines 734-749: the limit in force after the jobs block
JobsLimit(jobs, cur) ==
    IF jobs # "" /\ jobs # "all"
    THEN GOMAXPROCS(cur, IF ToInt(jobs) > NumCPU THEN NumCPU ELSE ToInt(jobs))
    ELSE GOMAXPROCS(cur, NumCPU)

ServeStops_Never(serve) == FALSE

\* lines 752-756: serve mode ends the run
ServeStops(serve) == serve = "true"

LookRefused_JSONOnly(look) == look # "json"

\* line 760: is the look value refused
LookRefused(look) == look # "text" /\ look # "json"

VersionStops_Never(version) == FALSE

\* line 772: is the version to be printed
VersionStops(version) == version = "true"

GlobsRefused_Never(g) == FALSE

\* line 784: is the globs value refused
GlobsRefused(g) == g # "" /\ g # "env" /\ g # "cfg" /\ g # "skip"

GlobsStops_Never(g) == FALSE

\* line 787: are the settings to be dumped
GlobsStops(g) == g = "env" \/ g = "cfg"

\* dvlnFinalPrep, lines 722-729: the command the usage hint names
cmdName ==
    IF currentCmd = "" THEN " [subcmd]"
    ELSE IF currentCmd = RootName THEN ""
    ELSE " " \o currentCmd

\* the text of a validation issue, with its usage hint
IssueMsg(text) == text \o "; Please run 'dvln help" \o cmdName \o "' for usage"

\* the checks in their order: what dvlnFinalPrep returns (complete, exitVal)
\* and what it did on the way
FinalPrepResult ==
    LET jobs == Get("jobs")
        look == Get("look")
        ov == IF look = "json" /\ GetBool("interact")
              THEN [override EXCEPT !["interact"] = "false"]
              ELSE override
        globsCLI == GetFrom("globs", pflags, flags, ov, config, environ)
        limit == JobsLimit(jobs, gomaxprocs)
    IN  IF JobsRefused(jobs)
        THEN [complete |-> TRUE, exitVal |-> "ErrorExitVal", issue |-> {"2003"},
              override |-> override, gomaxprocs |-> gomaxprocs,
              out |-> <<Message("LevelIssue", IssueMsg("invalid jobs value"), "2003", TRUE)>>]
        ELSE IF ServeStops(Get("serve"))
        THEN [complete |-> TRUE, exitVal |-> "0", issue |-> {},
              override |-> override, gomaxprocs |-> limit,
              out |-> <<Message("LevelFatal", "serve mode is not available yet",
                                "", TRUE)>>]
        ELSE IF LookRefused(look)
        THEN [complete |-> TRUE, exitVal |-> "ErrorExitVal", issue |-> {"2004"},
              override |-> override, gomaxprocs |-> limit,
              out |-> <<Message("LevelIssue", IssueMsg("invalid look value"), "2004", TRUE)>>]
        ELSE IF VersionStops(GetFrom("version", pflags, flags, ov, config, environ))
        THEN [complete |-> TRUE, exitVal |-> "0", issue |-> {}, override |-> ov,
              gomaxprocs |-> limit,
              out |-> <<Message("LevelInfo", "version", "", FALSE)>>]
        ELSE IF GlobsRefused(globsCLI)
        THEN [complete |-> TRUE, exitVal |-> "ErrorExitVal", issue |-> {"2005"},
              override |-> ov, gomaxprocs |-> limit,
              out |-> <<Message("LevelIssue", IssueMsg("invalid globs value"), "2005", TRUE)>>]
        ELSE IF GlobsStops(globsCLI)
        THEN [complete |-> TRUE, exitVal |-> "0", issue |-> {}, override |-> ov,
              gomaxprocs |-> limit,
              out |-> <<Message("LevelInfo", "globs " \o globsCLI, "", FALSE)>>]
        ELSE [complete |-> FALSE, exitVal |-> "", issue |-> {}, override |-> ov,
              gomaxprocs |-> limit, out |-> <<>>]

\* 'out' handling the messages of ms in turn
RECURSIVE HandleAll(_, _, _, _)
HandleAll(log, ms, fmtr, look) ==
    IF ms = <<>> THEN log
    ELSE HandleAll(Append(log, Handle(Head(ms), fmtr, look)), Tail(ms), fmtr, look)

\* Execute, lines 288-290: out.Fatal(err) on the error of the config read,
\* and no return after it
FatalCfgErr ==
    /\ pc = "fatalCfgErr"
    /\ msgs' = Append(msgs, Handle(Message("LevelFatal",
                                           "Configuration package failed to read config",
                                           "2002", TRUE), formatter, Get("look")))
    /\ issues' = issues \cup {"2002"}
    /\ pc' = IF NoExit THEN "dvlnFinalPrep" ELSE "done"
    /\ exitVal' = IF NoExit THEN exitVal ELSE "ErrorExitVal"
    /\ UNCHANGED <<storedWarnings, shown, gomaxprocs, exitNote, later>>
    /\ UNCHANGED <<cfgErr, reparseOK, prefixMatching, hist>>
    /\ UNCHANGED <<args, environ, ctlEnv, cfgFile, config, pflags, flags, override,
                   screenThresh, logThresh, logFile, tmpLogfileActive, tmpLogfileMsg,
                   storedNote, deferFunc, tmpCount, currentCmd, formatter,
                   dispatched, pass>>

\* is one of the messages a fatal one: out.Fatal* ends the process with the
\* error exit value unless the exit is switched off
Fatal(ms) == \E i \in 1..Len(ms) : ms[i].level = "LevelFatal"

DvlnFinalPrep ==
    /\ pc = "dvlnFinalPrep"
    /\ LET r == FinalPrepResult
       IN  /\ override' = r.override
           /\ issues' = issues \cup r.issue
           /\ exitVal' = IF Fatal(r.out) /\ ~NoExit THEN "ErrorExitVal" ELSE r.exitVal
           /\ gomaxprocs' = r.gomaxprocs
           /\ msgs' = HandleAll(msgs, r.out, formatter, Get("look"))
           /\ pc' = IF r.complete THEN "done" ELSE "dispatch"
    /\ hist' = Did("finalPrep")
    /\ UNCHANGED <<cfgErr, reparseOK, prefixMatching>>
    /\ UNCHANGED <<storedWarnings, shown, exitNote, later>>
    /\ UNCHANGED <<args, environ, ctlEnv, cfgFile, config, pflags, flags,
                   screenThresh, logThresh, logFile, tmpLogfileActive, tmpLogfileMsg,
                   storedNote, deferFunc, tmpCount, currentCmd, formatter,
                   dispatched, pass>>

\* the usage text the 'cli' package hands back for a command
UsageText(cmd) == "Usage:\n  " \o cmd \o " [flags]\nUse \"dvln help\""

\* api.EscapeJSONString: the text as the inside of a JSON string
RECURSIVE EscapeJSONString(_)
EscapeJSONString(t) ==
    IF Len(t) = 0 THEN ""
    ELSE LET ch == SubSeq(t, 1, 1)
             esc == IF ch = "\"" THEN "\\\""
                    ELSE IF ch = "\n" THEN "\\n"
                    ELSE IF ch = "\\" THEN "\\\\"
                    ELSE ch
         IN  esc \o EscapeJSONString(SubSeq(t, 2, Len(t)))

showCLIPkgOutput_AlwaysText(theOutput, look, record) ==
    [form |-> "text", kind |-> "", body |-> theOutput, recordLog |-> ""]

\* showCLIPkgOutput, lines 219-255: what is printed for the text the 'cli'
\* package returned
showCLIPkgOutput(theOutput, look, record) ==
    IF look = "json"
    THEN [form |-> "json", kind |-> "usage", body |-> EscapeJSONString(theOutput),
          recordLog |-> record]
    ELSE [form |-> "text", kind |-> "", body |-> theOutput, recordLog |-> ""]

\* Execute, line 319, and dvlnCmd.Execute(), lines 327-353: prefix matching
\* switched on, the strict parse (an unknown flag or a word that names no
\* command is an error), then the usage text when help is asked for, else the
\* command's Run; the root's run() reports issue 2001 with exit value -1, and
\* Execute returns 0 after it when the exit is switched off
Dispatch ==
    /\ pc = "dispatch"
    /\ LET cmd == FindWith(RootName, args, TRUE)
           bad == \/ \E i \in 1..Len(args.opts) : args.opts[i].name \notin FlagSet(cmd)
                  \/ cmd = RootName /\ args.sub # RootName
           help == flags["help"].value = "true"
           look == Get("look")
       IN  IF bad
           THEN /\ issues' = issues \cup {"2000"}
                /\ msgs' = Append(msgs, Handle(Message("LevelIssue", "unknown flag",
                                                       "2000", TRUE), formatter, look))
                /\ exitVal' = "ErrorExitVal"
                /\ pc' = "done"
                /\ UNCHANGED <<dispatched, shown, flags>>
           ELSE IF help
           THEN /\ shown' = Append(shown, showCLIPkgOutput(UsageText(cmd), look,
                                                           Get("record")))
                /\ exitVal' = "0"
                /\ pc' = "done"
                /\ flags' = ParseFlags(cmd, flags, args.opts)
                /\ UNCHANGED <<dispatched, issues, msgs>>
           ELSE IF cmd = RootName
           THEN /\ dispatched' = cmd
                /\ issues' = issues \cup {"2001"}
                /\ msgs' = Append(msgs, Handle(Message("LevelIssue",
                                                       "Please use a valid subcommand",
                                                       "2001", TRUE), formatter, look))
                /\ exitVal' = IF NoExit THEN "0" ELSE "-1"
                /\ pc' = "done"
                /\ flags' = ParseFlags(cmd, flags, args.opts)
                /\ UNCHANGED shown
           ELSE /\ dispatched' = cmd
                /\ pc' = "run"
                /\ flags' = ParseFlags(cmd, flags, args.opts)
                /\ UNCHANGED <<issues, msgs, exitVal, shown>>
    /\ prefixMatching' = TRUE
    /\ hist' = Did("dispatch")
    /\ UNCHANGED <<cfgErr, reparseOK>>
    /\ UNCHANGED <<storedWarnings, gomaxprocs, exitNote, later>>
    /\ UNCHANGED <<args, environ, ctlEnv, cfgFile, config, pflags, override,
                   screenThresh, logThresh, logFile, tmpLogfileActive, tmpLogfileMsg,
                   storedNote, deferFunc, tmpCount, currentCmd, formatter, pass>>

\* Execute, lines 345-353: the subcommand's Run function is over
RunReturns ==
    /\ pc = "run"
    /\ exitVal' = "0"
    /\ pc' = "done"
    /\ UNCHANGED <<cfgErr, reparseOK, prefixMatching, hist>>
    /\ UNCHANGED <<msgs, storedWarnings, shown, gomaxprocs, exitNote, later>>
    /\ UNCHANGED <<args, environ, ctlEnv, cfgFile, config, pflags, flags, override,
                   screenThresh, logThresh, logFile, tmpLogfileActive, tmpLogfileMsg,
                   storedNote, deferFunc, tmpCount, currentCmd, formatter, issues,
                   dispatched, pass>>

NoNote == [msg |-> "", toScreen |-> FALSE, toLogfile |-> FALSE]

\* doBeforeExit, lines 460-479: the note on the temp log file, written while
\* the logfile threshold is discard
doBeforeExit ==
    IF tmpLogfileMsg # ""
    THEN [msg |-> tmpLogfileMsg, toScreen |-> Passes("LevelNote", screenThresh),
          toLogfile |-> Passes("LevelNote", "LevelDiscard")]
    ELSE NoNote

\* main: out.Exit(exitVal) runs the deferred function, if one is registered,
\* and ends the process
ProcessExit ==
    /\ pc = "done"
    /\ later = <<>>
    /\ exitNote' = IF deferFunc THEN doBeforeExit ELSE NoNote
    /\ pc' = "exited"
    /\ UNCHANGED <<cfgErr, reparseOK, prefixMatching, hist>>
    /\ UNCHANGED <<msgs, storedWarnings, shown, gomaxprocs, later>>
    /\ UNCHANGED <<args, environ, ctlEnv, cfgFile, config, pflags, flags, override,
                   screenThresh, logThresh, logFile, tmpLogfileActive, tmpLogfileMsg,
                   storedNote, deferFunc, tmpCount, currentCmd, formatter, issues,
                   exitVal, dispatched, pass>>

Next ==
    \/ PrepCLIArgs
    \/ EarlyAdjust
    \/ ScanUserConfigFile
    \/ FinalAdjust
    \/ ReloadCLIDefaults
    \/ SetFormatter
    \/ DvlnFinalPrep
    \/ Dispatch
    \/ RunReturns
    \/ ProcessExit

(***************************************************************************)
(* A process that handles messages of the commands it runs and that calls  *)
(* Execute() more than once, as the test harness does (dvln_test.go,       *)
(* simpleTester): the flags, the 'globs' layers, the 'out' settings and    *)
(* the package variables stay as the call before left them.                *)
(***************************************************************************)
MaxMsgs == 1

\* what the Run function of a subcommand may hand to 'out'
RunMessages ==
    {Message("LevelDebug", "debug text", "", FALSE),
     Message("LevelInfo", "info text", "", FALSE),
     Message("LevelNote", "note text", "", FALSE),
     Message("LevelIssue", "issue text", "3001", FALSE),
     Message("LevelError", "error text", "3002", FALSE),
     Message("LevelError", "error text", "3003", TRUE),
     Message("LevelFatal", "fatal text", "3004", TRUE)}

\* 'out' handles a message of the running subcommand; a dying one ends the
\* Execute() call unless the exit is switched off
OutMessage ==
    /\ pc = "run"
    /\ Len(msgs) < MaxMsgs
    /\ \E m \in RunMessages :
          LET entry == Handle(m, formatter, Get("look"))
          IN  /\ msgs' = Append(msgs, entry)
              /\ storedWarnings' = Warned(storedWarnings, entry)
              /\ pc' = IF m.dying /\ ~NoExit THEN "done" ELSE pc
              /\ exitVal' = IF m.dying /\ ~NoExit THEN "ErrorExitVal" ELSE exitVal
    /\ UNCHANGED <<cfgErr, reparseOK, prefixMatching, hist>>
    /\ UNCHANGED <<shown, gomaxprocs, exitNote, later>>
    /\ UNCHANGED <<args, environ, ctlEnv, cfgFile, config, pflags, flags, override,
                   screenThresh, logThresh, logFile, tmpLogfileActive, tmpLogfileMsg,
                   storedNote, deferFunc, tmpCount, currentCmd, formatter, issues,
                   dispatched, pass>>

\* simpleTester: the next Execute() call of the process
NewRun ==
    /\ pc = "done"
    /\ later # <<>>
    /\ args' = Head(later)
    /\ later' = Tail(later)
    /\ exitVal' = ""
    /\ dispatched' = ""
    /\ pc' = "prepCLIArgs"
    /\ hist' = NoHist
    /\ UNCHANGED <<cfgErr, reparseOK, prefixMatching>>
    /\ UNCHANGED <<msgs, storedWarnings, shown, gomaxprocs, exitNote>>
    /\ UNCHANGED <<environ, ctlEnv, cfgFile, config, pflags, flags, override,
                   screenThresh, logThresh, logFile, tmpLogfileActive, tmpLogfileMsg,
                   storedNote, deferFunc, tmpCount, currentCmd, formatter, issues,
                   pass>>

NextInProcess ==
    \/ Next
    \/ OutMessage
    \/ NewRun

\* a process whose config file may be unreadable
NextWithCfgErr ==
    \/ Next
    \/ FatalCfgErr

(***************************************************************************)
(* The start of a run: doDvlnInit has registered the settings and the      *)
(* flags, each flag with the default the resolver gave at that time        *)
(* (environment or registered default: nothing else is loaded yet).        *)
(* The inputs of the run are drawn from the sets a specification names.    *)
(***************************************************************************)
MaxArgs == 2

Tok(n, v) == [name |-> n, value |-> v]

ArgSeqs(tokens) == UNION {[1..m -> tokens] : m \in 0..MaxArgs}

\* the layers that give each key of dom one of dom[key], and no other key
LayerSet(dom) ==
    LET vals == UNION {dom[k] : k \in DOMAIN dom}
        picks == {g \in [DOMAIN dom -> vals] : \A k \in DOMAIN dom : g[k] \in dom[k]}
    IN  {[k \in Keys |-> IF k \in DOMAIN dom THEN g[k] ELSE None] : g \in picks}

\* setup*CmdCLIArgs(reload=false), called from the init() functions
InitFlags(en) ==
    [f \in FlagNames |->
        LET def == GetFrom(f, {}, <<>>, NoLayer, NoLayer, en)
        IN  [name |-> f, shorthand |-> Shorthand(f), defValue |-> def,
             value |-> def, changed |-> FALSE]]

InitAll(subs, tokens, envs, cfgs, ctls, procs, laters, cfgErrs) ==
    /\ pc = "prepCLIArgs"
    /\ args \in {[sub |-> s, opts |-> o] : s \in subs, o \in ArgSeqs(tokens)}
    /\ environ \in envs
    /\ cfgFile \in cfgs
    /\ ctlEnv \in ctls
    /\ config = NoLayer
    /\ pflags = {}
    /\ flags = InitFlags(environ)
    /\ override = NoLayer
    /\ screenThresh = "LevelInfo"
    /\ logThresh = "LevelDiscard"
    /\ logFile = ""
    /\ tmpLogfileActive = FALSE
    /\ tmpLogfileMsg = ""
    /\ storedNote = [msg |-> "", code |-> "", level |-> ""]
    /\ deferFunc = FALSE
    /\ tmpCount = 0
    /\ currentCmd = ""
    /\ formatter = {}
    /\ issues = {}
    /\ exitVal = ""
    /\ dispatched = ""
    /\ pass = [n |-> 0, branch |-> "none", debug |-> FALSE, verbose |-> FALSE,
               quiet |-> FALSE, screenlevel |-> "", logfilelevel |-> "",
               record |-> "", logBefore |-> "LevelDiscard",
               screenFlagsBefore |-> "", allocated |-> FALSE, loud |-> FALSE,
               requests |-> <<>>,
               records |-> <<>>]
    /\ msgs = <<>>
    /\ storedWarnings = <<>>
    /\ shown = <<>>
    /\ gomaxprocs \in procs
    /\ exitNote = NoNote
    /\ later \in laters
    /\ cfgErr \in cfgErrs
    /\ reparseOK = {}
    /\ prefixMatching = FALSE
    /\ hist = NoHist

\* a process whose config file, if there is one, can be read
InitRun(subs, tokens, envs, cfgs, ctls, procs, laters) ==
    InitAll(subs, tokens, envs, cfgs, ctls, procs, laters, {FALSE})

\* one Execute() call in a process that starts with GOMAXPROCS at the number
\* of CPUs
InitWith(subs, tokens, envs, cfgs, ctls) ==
    InitRun(subs, tokens, envs, cfgs, ctls, {NumCPU}, {<<>>})

CtlSetWith(screenFlags, logfileOff, tmpDirs, noExit) ==
    {[DVLN_SCREEN_FLAGS |-> sf, PKG_OUT_SCREEN_FLAGS |-> "", DVLN_LOGFILE_OFF |-> lo,
      TMPDIR |-> td, HOME |-> "/home/u", PKG_OUT_NO_EXIT |-> ne] :
        sf \in screenFlags, lo \in logfileOff, td \in tmpDirs, ne \in noExit}

\* a process started by a user: a dying message ends it
CtlSet(screenFlags, logfileOff, tmpDirs) ==
    CtlSetWith(screenFlags, logfileOff, tmpDirs, {""})

\* output control: the verbosity flags, recording, the level settings
Init ==
    InitWith({"get"},
             {Tok("debug", "true"), Tok("verbose", "true"), Tok("quiet", "true"),
              Tok("record", "temp"), Tok("record", "/home/u/dvln.log")},
             LayerSet("debug" :> {None, "true"}),
             LayerSet("debug" :> {None, "false"} @@ "record" :> {None, "tmp"}
                      @@ "screenlevel" :> {None, "error"}
                      @@ "logfilelevel" :> {None, "verbose"}),
             CtlSet({"", "none", "all"}, {"", "1"}, {"/tmp"}))

Spec == Init /\ [][Next]_vars

\* temp log files: recording asked for by flag or config file, text or json
InitTempLog ==
    InitWith({"get"},
             {Tok("record", "temp"), Tok("record", "/home/u/dvln.log"),
              Tok("look", "json"), Tok("interact", "true")},
             LayerSet("look" :> {None, "json"}),
             LayerSet("record" :> {None, "tmp", "~/dvln.log"}
                      @@ "interact" :> {None, "true"}
                      @@ "look" :> {None, "json"}),
             CtlSet({""}, {""}, {"/tmp", "/home/u/tmp"}))

SpecTempLog == InitTempLog /\ [][Next]_vars

\* the layers of a CLIGlobal setting: flags of the root and of a subcommand,
\* an unknown flag, environment and config file entries
InitLayers ==
    InitWith({"dvln", "get"},
             {Tok("look", "json"), Tok("interact", "true"), Tok("codebase", "cbC"),
              Tok("version", "true"), Tok("baloney", "x")},
             LayerSet("look" :> {None, "yaml"} @@ "codebase" :> {None, "cbE"}
                      @@ "interact" :> {None, "true"}),
             LayerSet("look" :> {None, "json"} @@ "codebase" :> {None, "cbF"}
                      @@ "interact" :> {None, "true"}),
             CtlSet({""}, {""}, {"/tmp"}))

SpecLayers == InitLayers /\ [][Next]_vars

\* the CLIOnlyGlobal settings: each of them in the environment, in the
\* config file and on the command line
InitCLIOnly ==
    InitWith({"dvln", "get"},
             {Tok("globs", "skip"), Tok("version", "true"), Tok("pkg", "pC"),
              Tok("wkspcdir", "/wC")},
             LayerSet("globs" :> {None, "env"} @@ "version" :> {None, "true"}
                      @@ "pkg" :> {None, "pE"} @@ "wkspcdir" :> {None, "/wE"}),
             LayerSet("globs" :> {None, "cfg"} @@ "version" :> {None, "true"}
                      @@ "pkg" :> {None, "pF"} @@ "wkspcdir" :> {None, "/wF"}),
             CtlSet({""}, {""}, {"/tmp"}))

SpecCLIOnly == InitCLIOnly /\ [][Next]_vars

\* the checks of dvlnFinalPrep: jobs, serve, look, version and globs values,
\* an unknown flag, a process that starts with GOMAXPROCS at 1 or at the
\* number of CPUs
InitFinalPrep ==
    InitRun({"dvln", "get"},
            {Tok("jobs", "2"), Tok("jobs", "9999"), Tok("jobs", "x2"),
             Tok("jobs", "0"), Tok("serve", "true"), Tok("look", "yaml"),
             Tok("version", "true"), Tok("globs", "env"), Tok("globs", "cfg"),
             Tok("globs", "bogus"), Tok("globs", "skip"), Tok("baloney", "x")},
            LayerSet("look" :> {None, "xml"}),
            LayerSet("serve" :> {None, "true"} @@ "jobs" :> {None, ""}),
            CtlSet({""}, {""}, {"/tmp"}),
            {1, NumCPU}, {<<>>})

SpecFinalPrep == InitFinalPrep /\ [][Next]_vars

\* the look of the output: look and help on the command line of a first and
\* of a second Execute() call, look in the config file, messages of the
\* running subcommand
InitProcess ==
    InitRun({"dvln", "get"},
            {Tok("look", "json"), Tok("look", "text"), Tok("help", "true")},
            LayerSet("look" :> {None}),
            LayerSet("look" :> {None, "json"}),
            CtlSet({""}, {"1"}, {"/tmp"}),
            {NumCPU},
            {<<>>} \cup {<<[sub |-> c, opts |-> o]>> :
                            c \in {"dvln", "get"},
                            o \in ArgSeqs({Tok("look", "text"), Tok("help", "true")})})

SpecProcess == InitProcess /\ [][NextInProcess]_vars

\* how a run ends: a config file that can or cannot be read, serve, look,
\* version, globs and jobs values, an unknown flag, the root command and a
\* subcommand, in a process a user started and in one whose exit is
\* switched off
InitExits ==
    InitAll({"dvln", "get"},
            {Tok("serve", "true"), Tok("look", "json"), Tok("look", "yaml"),
             Tok("version", "true"), Tok("globs", "bogus"), Tok("jobs", "x2"),
             Tok("baloney", "x")},
            LayerSet("look" :> {None}),
            LayerSet("serve" :> {None, "true"}),
            CtlSetWith({""}, {""}, {"/tmp"}, {"", "1"}),
            {NumCPU}, {<<>>}, {FALSE, TRUE})

SpecExits == InitExits /\ [][NextWithCfgErr]_vars

\* the command word: none, a subcommand's name, a unique prefix of one, a
\* word that names no command; flags of the root and of the subcommand
InitCommands ==
    InitAll({"dvln", "get", "g", "bogus"},
            {Tok("codebase", "cbC"), Tok("look", "yaml"), Tok("debug", "true")},
            LayerSet("codebase" :> {None, "cbE"}),
            LayerSet("look" :> {None}),
            CtlSetWith({""}, {""}, {"/tmp"}, {"", "1"}),
            {NumCPU}, {<<>>}, {FALSE})

SpecCommands == InitCommands /\ [][Next]_vars

(***************************************************************************)
(* What the user typed, read off the argument vector alone.                *)
(***************************************************************************)
Typed(f) == \E i \in 1..Len(args.opts) : args.opts[i].name = f

\* the flag is one of the root command or of the command the arguments name
Supplied(f) ==
    /\ Typed(f)
    /\ ArgsLen(args) # 1
    /\ f \in PersistentFlags \cup LocalFlags(RootName) \cup LocalFlags(args.sub)

\* the value of the last occurrence of the flag
SuppliedValue(f) ==
    LET last == CHOOSE i \in 1..Len(args.opts) :
                    /\ args.opts[i].name = f
                    /\ \A j \in (i + 1)..Len(args.opts) : args.opts[j].name # f
    IN  args.opts[last].value

\* the config file once Execute has read it
Loaded == IF pc \in {"prepCLIArgs", "earlyAdjust", "scanUserConfigFile"}
          THEN NoLayer ELSE cfgFile

CLIGlobalKeys == {k \in Keys : Scope(k) = "CLIGlobal"}
CLIOnlyKeys == {"globs", "pkg", "version", "wkspcdir"}

\* flag, else config file, else environment, else registered default
FourLayers(k) ==
    IF Supplied(k) THEN SuppliedValue(k)
    ELSE IF Loaded[k] # None THEN Loaded[k]
    ELSE IF environ[k] # None THEN environ[k]
    ELSE Default(k)

C2_CLIOnlyIgnoresEnvAndConfig ==
    \A k \in CLIOnlyKeys :
        (~(pc # "prepCLIArgs" /\ Supplied(k)) /\ override[k] = None)
            => Get(k) = Default(k)

\* every CLIOnlyGlobal setting is in the environment and in the loaded config
\* file, none was typed, and the run went on to the subcommand
C2_Witness ==
    /\ pc = "done" /\ dispatched = "get"
    /\ \A k \in CLIOnlyKeys :
          /\ environ[k] # None /\ config[k] # None /\ ~Typed(k)
          /\ Get(k) = Default(k)

C4_SetWinsOverFlag ==
    /\ \A k \in Keys : override[k] # None => Get(k) = override[k]
    /\ tmpLogfileActive => Get("record") \notin {"temp", "tmp"}

(***************************************************************************)
(* C5: the reload pass re-registers every flag without a duplicate         *)
(* definition panic and changes nothing of a flag but its displayed        *)
(* default, which becomes the setting's resolved value at that moment;     *)
(* name, shorthand, parsed value and changed status stay as they were.     *)
(***************************************************************************)
C5_ReloadChangesOnlyDefault ==
    [][pc = "reloadCLIDefaults" =>
          /\ exitVal' # "panic"
          /\ \A f \in FlagNames :
                /\ flags'[f].defValue = Get(f)
                /\ flags'[f].name = flags[f].name
                /\ flags'[f].shorthand = flags[f].shorthand
                /\ flags'[f].value = flags[f].value
                /\ flags'[f].changed = flags[f].changed]_vars

\* after the reload: a flag the user left alone shows the config file's value
\* as its default while its parsed value is the old one, and a flag the
\* user supplied is still changed
C5_Witness ==
    /\ pc = "setFormatter"
    /\ ~flags["interact"].changed /\ flags["interact"].value = "false"
    /\ flags["interact"].defValue = "true"
    /\ flags["codebase"].changed /\ flags["codebase"].value = "cbC"
    /\ flags["codebase"].defValue = "cbC" /\ cfgFile["codebase"] = "cbF"

(***************************************************************************)
(* What the latest adjustOutLevels pass saw, for the claims on it.         *)
(***************************************************************************)
Adjusted == pass.n > 0
LogfileOff == ctlEnv.DVLN_LOGFILE_OFF = "1"
DebugAlone == Adjusted /\ pass.debug /\ ~pass.verbose
VerboseAlone == Adjusted /\ pass.verbose /\ ~pass.debug
DebugAndVerbose == Adjusted /\ pass.debug /\ pass.verbose
QuietAlone == Adjusted /\ pass.quiet /\ ~pass.debug /\ ~pass.verbose
NoneOfThem == Adjusted /\ ~pass.quiet /\ ~pass.debug /\ ~pass.verbose

(***************************************************************************)
(* C6 as stated: one branch applies, the first that matches of             *)
(* debug+verbose, debug, verbose, quiet: after a pass that saw debug       *)
(* without verbose both thresholds are debug, after one that saw verbose   *)
(* without debug both are verbose, whatever quiet and screenlevel are.     *)
(***************************************************************************)
C6_Original ==
    /\ DebugAlone => screenThresh = "LevelDebug" /\ logThresh = "LevelDebug"
    /\ VerboseAlone => screenThresh = "LevelVerbose" /\ logThresh = "LevelVerbose"
    /\ QuietAlone => screenThresh = "LevelError"

(***************************************************************************)
(* C6 as amended: the same, except that with DVLN_LOGFILE_OFF=1 the        *)
(* logfile threshold is discard after the pass.                            *)
(***************************************************************************)
C6_OneBranchInOrder ==
    /\ DebugAlone =>
          /\ screenThresh = "LevelDebug"
          /\ logThresh = IF LogfileOff THEN "LevelDiscard" ELSE "LevelDebug"
    /\ VerboseAlone =>
          /\ screenThresh = "LevelVerbose"
          /\ logThresh = IF LogfileOff THEN "LevelDiscard" ELSE "LevelVerbose"
    /\ QuietAlone => screenThresh = "LevelError"

\* debug with quiet, and screenlevel set to error in the config file
C6_Witness ==
    /\ pass.n = 2 /\ DebugAlone /\ pass.quiet /\ pass.screenlevel = "error"
    /\ screenThresh = "LevelDebug" /\ logThresh = "LevelDebug"

(***************************************************************************)
(* C7 as stated: after a pass that saw debug and verbose both true, both   *)
(* thresholds are trace, and DVLN_SCREEN_FLAGS is "debug" and forwarded    *)
(* unless it was already non-empty, and then it is as it was.              *)
(***************************************************************************)
C7_Original ==
    DebugAndVerbose =>
        /\ screenThresh = "LevelTrace" /\ logThresh = "LevelTrace"
        /\ IF pass.screenFlagsBefore = ""
           THEN /\ ctlEnv.DVLN_SCREEN_FLAGS = "debug"
                /\ ctlEnv.PKG_OUT_SCREEN_FLAGS = "debug"
           ELSE ctlEnv.DVLN_SCREEN_FLAGS = pass.screenFlagsBefore

(***************************************************************************)
(* C7 as amended: the same, except that with DVLN_LOGFILE_OFF=1 the        *)
(* logfile threshold is discard after the pass.                            *)
(***************************************************************************)
C7_TraceAndScreenFlags ==
    DebugAndVerbose =>
        /\ screenThresh = "LevelTrace"
        /\ logThresh = IF LogfileOff THEN "LevelDiscard" ELSE "LevelTrace"
        /\ IF pass.screenFlagsBefore = ""
           THEN /\ ctlEnv.DVLN_SCREEN_FLAGS = "debug"
                /\ ctlEnv.PKG_OUT_SCREEN_FLAGS = "debug"
           ELSE ctlEnv.DVLN_SCREEN_FLAGS = pass.screenFlagsBefore

\* the first trace pass of a run that started with DVLN_SCREEN_FLAGS empty
C7_Witness ==
    /\ pass.n = 1 /\ DebugAndVerbose /\ pass.screenFlagsBefore = ""
    /\ logThresh = "LevelTrace" /\ ctlEnv.PKG_OUT_SCREEN_FLAGS = "debug"

(***************************************************************************)
(* C8 as stated: after a pass that saw quiet true and debug and verbose    *)
(* false the screen threshold is error and the logfile threshold is what   *)
(* it was before the pass.                                                 *)
(***************************************************************************)
C8_Original ==
    QuietAlone => screenThresh = "LevelError" /\ logThresh = pass.logBefore

(***************************************************************************)
(* C8 as amended: the logfile threshold is what it was before the pass     *)
(* unless recording is active and it was discard, when it becomes          *)
(* logfilelevel (and stays discard with DVLN_LOGFILE_OFF=1).               *)
(***************************************************************************)
C8_QuietLeavesLogfile ==
    QuietAlone =>
        /\ screenThresh = "LevelError"
        /\ logThresh =
              IF LogfileOff THEN "LevelDiscard"
              ELSE IF Recording(pass.record) /\ pass.logBefore = "LevelDiscard"
                   THEN LevelString2Level(pass.logfilelevel)
                   ELSE pass.logBefore

\* a quiet final pass of a run that records: the logfile threshold the early
\* pass set is still there
C8_Witness ==
    /\ pass.n = 2 /\ QuietAlone /\ Recording(pass.record)
    /\ pass.logBefore = "LevelInfo" /\ logThresh = "LevelInfo"
    /\ screenThresh = "LevelError"

(***************************************************************************)
(* C9 as stated, already for the runs without DVLN_LOGFILE_OFF=1 in which  *)
(* no pass saw debug or verbose true: after every pass that saw none of    *)
(* debug, verbose and quiet true, the screen threshold is screenlevel and, *)
(* when recording is active, the logfile threshold is logfilelevel.        *)
(***************************************************************************)
C9_NoneBranchFollowsSettings ==
    (NoneOfThem /\ ~LogfileOff /\ ~pass.loud) =>
        /\ screenThresh = LevelString2Level(pass.screenlevel)
        /\ Recording(pass.record) =>
              logThresh = LevelString2Level(pass.logfilelevel)

(***************************************************************************)
(* The run asked for a temp log at its first adjustOutLevels pass.         *)
(***************************************************************************)
TempAtFirstPass == Adjusted /\ pass.requests[1] \in {"temp", "tmp"}

(***************************************************************************)
(* C10 as stated: a temp log file is allocated at most once in a run, and  *)
(* the path held under "record" after the second pass is identical to the  *)
(* path held after the first.                                              *)
(***************************************************************************)
C10_Original ==
    /\ tmpCount <= 1
    /\ (TempAtFirstPass /\ pass.n >= 2) => pass.records[2] = pass.records[1]

(***************************************************************************)
(* C10 as amended: a temp log file is allocated at most once in a run;     *)
(* "record" holds its path after the first pass, and after the second      *)
(* pass it holds that path with a leading home directory written as "~"    *)
(* (the identical path when the temp directory is not under the home       *)
(* directory).                                                             *)
(***************************************************************************)
C10_TempLogOnce ==
    /\ tmpCount <= 1
    /\ TempAtFirstPass =>
          /\ tmpCount = 1
          /\ pass.records[1] = TempLogFile(ctlEnv.TMPDIR, 1)
          /\ pass.n >= 2 =>
                pass.records[2] = TrimHome(pass.records[1], ctlEnv.HOME)

\* --record=temp, two passes, one file, the same path after both
C10_Witness ==
    /\ pass.n = 2 /\ pass.requests[1] = "temp" /\ Supplied("record")
    /\ tmpCount = 1
    /\ pass.records[1] = "/tmp/dvln.1" /\ pass.records[2] = "/tmp/dvln.1"

(***************************************************************************)
(* C11 as stated: when the process exits after a run that allocated a temp *)
(* log file, a resolved look of text means the note naming the temp log    *)
(* path went to the screen and not to the logfile; a resolved look of json *)
(* means no screen note was written and the path is kept as the stored     *)
(* note of the JSON response; whichever layer supplied look.               *)
(***************************************************************************)
C11_TempLogNoteFollowsLook ==
    (pc = "exited" /\ tmpCount = 1) =>
        LET named == "Temp output logfile: " \o TempLogFile(ctlEnv.TMPDIR, 1)
        IN  /\ Get("look") = "text" =>
                  /\ exitNote.msg = named
                  /\ exitNote.toScreen /\ ~exitNote.toLogfile
            /\ Get("look") = "json" =>
                  /\ exitNote = NoNote
                  /\ storedNote.msg = named

(***************************************************************************)
(* What a run did once dvlnFinalPrep is over, for the claims on it.        *)
(***************************************************************************)
Prepared == pc \in {"dispatch", "run", "done", "exited"}
JobsOK == Get("jobs") \in {"", "all"} \/ IsInt(Get("jobs"))
LookOK == Get("look") \in {"text", "json"}
Printed(text) == \E i \in 1..Len(msgs) : msgs[i].text = text /\ msgs[i].level = "LevelInfo"
Dumped == Printed("globs env") \/ Printed("globs cfg")
Reported(code) ==
    /\ code \in issues
    /\ \E i \in 1..Len(msgs) : msgs[i].code = code /\ msgs[i].level = "LevelIssue"
NothingDispatched == dispatched = "" /\ pc \notin {"dispatch", "run"}

(***************************************************************************)
(* C12 as stated: once the settings are resolved, a look other than text   *)
(* and json makes Execute report issue 2004, return the error exit value   *)
(* and dispatch nothing; text and json never give issue 2004.              *)
(***************************************************************************)
C12_Original ==
    Prepared =>
        /\ ~LookOK => (Reported("2004") /\ exitVal = "ErrorExitVal" /\ NothingDispatched)
        /\ LookOK => "2004" \notin issues

(***************************************************************************)
(* C12 as amended: the same for a run whose jobs value is valid and whose  *)
(* serve is false; in every run with such a look nothing is dispatched.    *)
(***************************************************************************)
C12_InvalidLook ==
    Prepared =>
        /\ ~LookOK => NothingDispatched
        /\ (~LookOK /\ JobsOK /\ Get("serve") # "true") =>
              (Reported("2004") /\ exitVal = "ErrorExitVal")
        /\ LookOK => "2004" \notin issues

\* a look the environment alone supplies is refused, with the subcommand named
C12_Witness ==
    /\ pc = "exited" /\ args.sub = "get" /\ ~Typed("look")
    /\ Get("look") = "xml" /\ Reported("2004") /\ exitVal = "ErrorExitVal"
    /\ dispatched = ""

(***************************************************************************)
(* C13 as stated: a resolved globs value that is not empty and is neither  *)
(* env nor cfg makes Execute report issue 2005 and return the error exit   *)
(* value; the settings are not dumped and nothing is dispatched.           *)
(***************************************************************************)
C13_Original ==
    (Prepared /\ Get("globs") \notin {"", "env", "cfg"}) =>
        /\ Reported("2005") /\ exitVal = "ErrorExitVal"
        /\ ~Dumped /\ NothingDispatched

(***************************************************************************)
(* C13 as amended: the same for a value that is not "skip" either, in a    *)
(* run whose jobs and look values are valid and whose serve and version    *)
(* are false; in every run with such a globs value the settings are not    *)
(* dumped and nothing is dispatched.                                       *)
(***************************************************************************)
C13_InvalidGlobs ==
    (Prepared /\ Get("globs") \notin {"", "env", "cfg", "skip"}) =>
        /\ ~Dumped /\ NothingDispatched
        /\ (JobsOK /\ LookOK /\ Get("serve") # "true" /\ Get("version") # "true") =>
              (Reported("2005") /\ exitVal = "ErrorExitVal")

\* --globs=bogus after a valid --jobs
C13_Witness ==
    /\ pc = "exited" /\ Get("globs") = "bogus" /\ Get("jobs") = "2"
    /\ Reported("2005") /\ exitVal = "ErrorExitVal" /\ dispatched = ""

(***************************************************************************)
(* C14 as stated, for the unknown flag --baloney: the tolerant pre-pass    *)
(* reports nothing and the run goes on, and when Execute has returned the  *)
(* dispatch parse has reported the flag as issue 2000 and the exit value   *)
(* is the error exit value.                                                *)
(***************************************************************************)
C14_UnknownFlagResurfaces ==
    Typed("baloney") =>
        /\ pc = "earlyAdjust" => (issues = {} /\ msgs = <<>>)
        /\ pc \in {"done", "exited"} => (Reported("2000") /\ exitVal = "ErrorExitVal")

Min(a, b) == IF a < b THEN a ELSE b

(***************************************************************************)
(* C18 as stated: after dvlnFinalPrep, a jobs value that is an integer N   *)
(* has raised no error and the limit in force is min(N, number of CPUs);   *)
(* for "all" and for the empty value the limit is the number of CPUs.      *)
(***************************************************************************)
C18_Original ==
    Prepared =>
        /\ IsInt(Get("jobs")) =>
              /\ "2003" \notin issues
              /\ gomaxprocs = Min(ToInt(Get("jobs")), NumCPU)
        /\ Get("jobs") \in {"all", ""} => gomaxprocs = NumCPU

(***************************************************************************)
(* C18 as amended: dvlnFinalPrep raises no error for a jobs value that is  *)
(* an integer N; it sets the limit to min(N, number of CPUs) when N is at  *)
(* least 1 and leaves the limit as it was when N is below 1; for "all" and *)
(* for the empty value it sets the limit to the number of CPUs.            *)
(***************************************************************************)
C18_JobsLimit ==
    [][pc = "dvlnFinalPrep" =>
          /\ IsInt(Get("jobs")) =>
                /\ "2003" \notin issues'
                /\ gomaxprocs' = IF ToInt(Get("jobs")) >= 1
                                 THEN Min(ToInt(Get("jobs")), NumCPU)
                                 ELSE gomaxprocs
          /\ Get("jobs") \in {"all", ""} => gomaxprocs' = NumCPU]_vars

\* --jobs=9999 is clamped and the subcommand runs
C18_Witness ==
    /\ pc = "exited" /\ Get("jobs") = "9999" /\ gomaxprocs = NumCPU
    /\ issues = {} /\ dispatched = "get"

(***************************************************************************)
(* C19: in a run whose jobs and look values are valid and whose serve is   *)
(* false, a resolved version of true, or a resolved globs of env or cfg,   *)
(* has Execute print what was asked for (the version when both are asked   *)
(* for) and return 0, and nothing is dispatched.                           *)
(***************************************************************************)
C19_InfoExits ==
    (Prepared /\ JobsOK /\ LookOK /\ Get("serve") # "true") =>
        /\ Get("version") = "true" =>
              (Printed("version") /\ exitVal = "0" /\ NothingDispatched)
        /\ Get("globs") \in {"env", "cfg"} =>
              /\ Printed("version") \/ Printed("globs " \o Get("globs"))
              /\ Get("version") # "true" => Printed("globs " \o Get("globs"))
              /\ exitVal = "0" /\ NothingDispatched

\* --globs=cfg with a valid --jobs and the subcommand named
C19_Witness ==
    /\ pc = "exited" /\ args.sub = "get" /\ Get("globs") = "cfg" /\ Get("jobs") = "2"
    /\ Printed("globs cfg") /\ exitVal = "0" /\ dispatched = ""

(***************************************************************************)
(* C20: in a run whose jobs value is valid and whose serve resolves true,  *)
(* dvlnFinalPrep ends with the fatal message: look is not validated, no    *)
(* version and no settings are printed, and nothing is dispatched.         *)
(***************************************************************************)
C20_ServeEndsRun ==
    (Prepared /\ JobsOK /\ Get("serve") = "true") =>
        /\ Len(msgs) = 1 /\ msgs[1].level = "LevelFatal" /\ msgs[1].dying
        /\ issues = {}
        /\ ~Printed("version") /\ ~Dumped
        /\ NothingDispatched

\* serve from the config file with an invalid look and the version asked for
C20_Witness ==
    /\ pc = "exited" /\ ~Typed("serve") /\ Get("serve") = "true"
    /\ Get("look") = "yaml" /\ Get("version") = "true"
    /\ Len(msgs) = 1 /\ msgs[1].level = "LevelFatal" /\ dispatched = ""

(***************************************************************************)
(* What 'out' did with the messages it handled, for the claims on it.      *)
(***************************************************************************)
PassedThrough(e) ==
    /\ e.out = e.text /\ e.suppress = {} /\ ~e.noPrefix /\ e.warning = NoWarning

NewEntries(old, new) == {new[i] : i \in (Len(old) + 1)..Len(new)}

(***************************************************************************)
(* C15: the interceptor is registered only by the step that follows the    *)
(* loading of the config file, only when look resolves to json there, and  *)
(* then for the levels issue, error and fatal; every message below the     *)
(* level issue, and every message handled while look is not json, comes    *)
(* out of 'out' unchanged with nothing suppressed.                         *)
(***************************************************************************)
C15_InterceptorScope ==
    [][/\ formatter' # formatter =>
             /\ pc = "setFormatter" /\ config = cfgFile /\ Get("look") = "json"
             /\ formatter' = {"LevelIssue", "LevelError", "LevelFatal"}
       /\ \A e \in NewEntries(msgs, msgs') :
             (LevelRank(e.level) < LevelRank("LevelIssue") \/ Get("look") # "json")
                 => PassedThrough(e)]_vars

\* an error handled in a text run of a process whose earlier json run
\* registered the interceptor
C15_Witness ==
    /\ formatter = {"LevelIssue", "LevelError", "LevelFatal"}
    /\ later = <<>> /\ Typed("look") /\ Get("look") = "text"
    /\ Len(msgs) = 1 /\ msgs[1].level = "LevelError" /\ msgs[1].hooked
    /\ msgs[1].out = "error text" /\ msgs[1].suppress = {}

(***************************************************************************)
(* C16: of the messages handled with look=json, an issue or error that     *)
(* does not end the run is kept as a stored warning with its level and     *)
(* code, comes out with an empty text and is suppressed on the screen and  *)
(* in the logfile; an issue, error or fatal that ends the run comes out    *)
(* as the JSON error response and is not suppressed.                       *)
(***************************************************************************)
C16_JSONInterception ==
    \A i \in 1..Len(msgs) :
        LET e == msgs[i]
        IN  (e.look = "json" /\ e.level \in {"LevelIssue", "LevelError", "LevelFatal"}) =>
                /\ (~e.dying /\ e.level # "LevelFatal") =>
                      /\ \E j \in 1..Len(storedWarnings) :
                            /\ storedWarnings[j].level = e.level
                            /\ storedWarnings[j].code = e.code
                      /\ e.out = ""
                      /\ e.suppress = {"screen", "logfile"}
                /\ e.dying =>
                      /\ e.out = FatalJSONMsg(e.text, e.code, e.level)
                      /\ e.out # e.text
                      /\ e.suppress = {}

\* an issue of the subcommand in a run whose look the config file makes json
C16_Witness ==
    /\ ~Typed("look") /\ Get("look") = "json" /\ pc = "exited" /\ exitVal = "0"
    /\ Len(msgs) = 1 /\ msgs[1].level = "LevelIssue" /\ ~msgs[1].dying
    /\ storedWarnings = <<[msg |-> "issue text", code |-> "3001", level |-> "LevelIssue"]>>
    /\ msgs[1].out = ""

(***************************************************************************)
(* C17: the usage text of a dispatch that asked for help is printed as it  *)
(* is when the look resolved in the current run is text, and as a JSON     *)
(* envelope with the escaped text as helpMsg when it is json; so a text    *)
(* run after a json run of the same process prints plain text.             *)
(***************************************************************************)
C17_HelpFollowsLook ==
    [][\A e \in NewEntries(shown, shown') :
          LET usage == UsageText(Find(RootName, args))
          IN  /\ Get("look") = "text" => (e.form = "text" /\ e.body = usage)
              /\ Get("look") = "json" =>
                    /\ e.form = "json" /\ e.kind = "usage"
                    /\ e.body = EscapeJSONString(usage) /\ e.body # usage]_vars

\* dvln --help --look=json, then dvln --look=text in the same process
C17_Witness ==
    /\ Len(shown) = 2 /\ pc = "done" /\ ~Typed("help") /\ Typed("look")
    /\ shown[1].form = "json" /\ shown[1].body = EscapeJSONString(UsageText("dvln"))
    /\ shown[2].form = "text" /\ shown[2].body = UsageText("dvln")
(***************************************************************************)
(* The stages an Execute() call went through, for the claims on their      *)
(* order.                                                                  *)
(***************************************************************************)
Went(stage) == \E i \in 1..Len(hist.stages) : hist.stages[i] = stage

\* the stages of a call that got as far as the dispatch; there is no
\* pre-pass when the arguments are the program name alone
AllStages ==
    (IF ArgsLen(args) = 1 THEN <<>> ELSE <<"prePass">>)
        \o <<"earlyAdjust", "configLoad", "finalAdjust", "reload", "finalPrep",
             "dispatch">>

(***************************************************************************)
(* C21: a call of Execute that reaches the dispatch went through the       *)
(* pre-pass, the early output adjust, the config-file load, the final      *)
(* output adjust, the reload of the flag defaults and the final prep, in   *)
(* this order, before it; the dispatch never happens before the config     *)
(* file is read, the final adjust is run and the defaults are reloaded.    *)
(***************************************************************************)
C21_StagesInOrder ==
    Went("dispatch") =>
        /\ hist.stages = AllStages
        /\ config = cfgFile
        /\ pass.n = 2
        /\ Len(hist.reload) = 4
(***************************************************************************)
(* C22: the reparse mode of a flag set is on only while one                *)
(* setup*CmdCLIArgs(reload=true) call is in progress: every flag set on    *)
(* which such a call registers flags had the mode switched on before the   *)
(* first registration, the call switches on no flag set of another         *)
(* command and leaves the mode off everywhere, and between the calls, so   *)
(* during the pre-pass and the dispatch too, the mode is off on every      *)
(* flag set of every command; no registration panics.                      *)
(***************************************************************************)
C22_ReparseMode ==
    /\ reparseOK = {}
    /\ exitVal # "panic"
    /\ \A i \in 1..Len(hist.reload) :
          LET e == hist.reload[i]
          IN  /\ e.registered \subseteq e.enabled
              /\ e.enabled \subseteq {e.cmd \o ".Flags", e.cmd \o ".PersistentFlags"}
              /\ e.left = {}

\* the reload is over: the root's call had both of its flag sets in the mode,
\* the call of get its one, and the mode is off again
C22_Witness ==
    /\ pc = "setFormatter" /\ Len(hist.reload) = 4
    /\ hist.reload[1].cmd = RootName
    /\ hist.reload[1].registered = {"dvln.Flags", "dvln.PersistentFlags"}
    /\ hist.reload[1].enabled = {"dvln.Flags", "dvln.PersistentFlags"}
    /\ hist.reload[2].registered = {"get.Flags"}
    /\ reparseOK = {}
(***************************************************************************)
(* The command word of the argument vector, read off the arguments alone.  *)
(***************************************************************************)
\* the subcommand the word names: by its name or by a unique prefix of it
Named ==
    IF args.sub \in SubCommands THEN args.sub
    ELSE IF Cardinality({c \in SubCommands : HasPrefix(c, args.sub)}) = 1
         THEN CHOOSE c \in SubCommands : HasPrefix(c, args.sub)
         ELSE RootName

\* there is a command word and it names no subcommand
BadWord == args.sub # RootName /\ Named = RootName

(***************************************************************************)
(* C23: when the command word names no subcommand, the pre-pass at the     *)
(* root ends the run at once with a usage hint: the run is over when the   *)
(* pre-pass is, the config file is never loaded and nothing is dispatched. *)
(***************************************************************************)
C23_BadWordEndsRunInPrePass ==
    (BadWord /\ Went("prePass")) =>
        /\ pc \in {"done", "exited"}
        /\ \E i \in 1..Len(msgs) : msgs[i].level = "LevelIssue" /\ msgs[i].dying
        /\ ~Went("configLoad") /\ config = NoLayer
        /\ ~Went("dispatch") /\ dispatched = ""
(***************************************************************************)
(* C24: a subcommand named by its name or by a unique prefix of it is the  *)
(* command the pre-pass finds and the command the dispatch runs: when its  *)
(* run function starts, currentCmd names it, the pre-pass has parsed its   *)
(* flags, and every flag of it that was typed is in the explicit-CLI       *)
(* layer, so that the setting resolves to the value typed.                 *)
(***************************************************************************)
C24_PrefixFoundByBothParses ==
    (Named \in SubCommands /\ pc = "run") =>
        /\ dispatched = Named
        /\ currentCmd = Named
        /\ hist.parsed = <<RootName, Named>>
        /\ \A f \in FlagSet(Named) :
              Typed(f) => (f \in pflags /\ Get(f) = SuppliedValue(f))
\* the usage hint that names command c
HintNaming(c) ==
    "; Please run 'dvln help" \o (IF c = RootName THEN "" ELSE " " \o c) \o "' for usage"

\* the messages of the validation issues
ValidationMsgs == {i \in 1..Len(msgs) : msgs[i].code \in {"2003", "2004", "2005"}}

(***************************************************************************)
(* C25: currentCmd is empty until the first pre-pass and from then on is   *)
(* the name of the command the arguments of that call name: the root's     *)
(* name when no subcommand is given, else the subcommand's name; nothing   *)
(* changes it later, and the usage hint of a validation issue names that   *)
(* command.                                                                *)
(***************************************************************************)
C25_CurrentCmdSetOnce ==
    /\ currentCmd = (IF Went("prePass") THEN Named ELSE "")
    /\ \A i \in ValidationMsgs :
          \E base \in {"invalid jobs value", "invalid look value", "invalid globs value"} :
              msgs[i].text = base \o HintNaming(Named)
\* the read of the config file has failed and Execute has acted on it
CfgErrHandled == cfgErr /\ pc \notin {"prepCLIArgs", "earlyAdjust", "scanUserConfigFile",
                                       "setFormatter", "fatalCfgErr"}

\* the failed read is reported as the fatal error 2002, through the JSON
\* interceptor when look is json
CfgErrReported ==
    /\ "2002" \in issues
    /\ \E i \in 1..Len(msgs) :
          /\ msgs[i].code = "2002" /\ msgs[i].level = "LevelFatal" /\ msgs[i].dying
          /\ msgs[i].hooked = (Get("look") = "json")
          /\ Get("look") = "json" =>
                msgs[i].out = FatalJSONMsg(msgs[i].text, "2002", "LevelFatal")

(***************************************************************************)
(* C26: a failed read of the config file is reported as the fatal error    *)
(* 2002 once the JSON interceptor is registered, as a JSON error when look *)
(* is json; in a run whose read failed neither the final prep nor the      *)
(* dispatch of a command is ever executed.                                 *)
(***************************************************************************)
C26_ConfigReadFailure ==
    /\ CfgErrHandled => CfgErrReported
    /\ cfgErr => (~Went("finalPrep") /\ ~Went("dispatch") /\ dispatched = "")
\* what the settings ask of the final prep, each read off the settings alone
ServeAsked == Get("serve") = "true"
VersionAsked == Get("version") = "true"
GlobsOK == Get("globs") \in {"", "env", "cfg", "skip"}
DumpAsked == Get("globs") \in {"env", "cfg"}

\* the one message of the final prep is the issue with this code
OnlyIssue(code) ==
    /\ Len(msgs) = 1 /\ msgs[1].code = code /\ msgs[1].level = "LevelIssue"
    /\ issues = {code} /\ exitVal = "ErrorExitVal"

\* the one message of the final prep is this print, and the run succeeds
OnlyPrint(text) ==
    /\ Len(msgs) = 1 /\ msgs[1].text = text /\ msgs[1].level = "LevelInfo"
    /\ issues = {} /\ exitVal = "0"

(***************************************************************************)
(* C27: dvlnFinalPrep checks, in this order, the jobs value, serve, the    *)
(* look value, the version request, the globs value and the globs dump,    *)
(* and the first check that applies ends the run with its outcome alone:   *)
(* an invalid look is reported even when the version is asked for, and     *)
(* the version is printed with exit value 0 even when globs is invalid.    *)
(***************************************************************************)
C27_ChecksInOrder ==
    Prepared =>
        /\ ~JobsOK => OnlyIssue("2003")
        /\ (JobsOK /\ ServeAsked) =>
              (Len(msgs) = 1 /\ msgs[1].level = "LevelFatal" /\ issues = {})
        /\ (JobsOK /\ ~ServeAsked /\ ~LookOK) => OnlyIssue("2004")
        /\ (JobsOK /\ ~ServeAsked /\ LookOK /\ VersionAsked) => OnlyPrint("version")
        /\ (JobsOK /\ ~ServeAsked /\ LookOK /\ ~VersionAsked /\ ~GlobsOK) =>
              OnlyIssue("2005")
        /\ (JobsOK /\ ~ServeAsked /\ LookOK /\ ~VersionAsked /\ DumpAsked) =>
              OnlyPrint("globs " \o Get("globs"))
        /\ (~JobsOK \/ ServeAsked \/ ~LookOK \/ VersionAsked \/ ~GlobsOK \/ DumpAsked) =>
              NothingDispatched

\* the version asked for together with an invalid globs value: the version
\* is printed and the run succeeds
C27_Witness ==
    /\ pc = "exited" /\ Typed("version") /\ Get("globs") = "bogus"
    /\ OnlyPrint("version") /\ dispatched = ""
\* an issue, an error or a fatal was reported in the run
ProblemReported ==
    \E i \in 1..Len(msgs) : msgs[i].level \in {"LevelIssue", "LevelError", "LevelFatal"}

(***************************************************************************)
(* C28: Execute returns 0 only when no issue, error or fatal was reported  *)
(* in the run; a run that reported one (a validation failure, the serve    *)
(* request, a failed config read, a dispatch parse error, the root command *)
(* run without a subcommand) ends with a non-zero exit value, whether the  *)
(* process exit is switched off or not.                                    *)
(***************************************************************************)
C28_ZeroOnlyWithoutProblem ==
    (pc \in {"done", "exited"} /\ ProblemReported) => exitVal \notin {"", "0"}
\* the final prep is over and has not ended the run
PastFinalPrep == pc \in {"dispatch", "run"} \/ Went("dispatch")

(***************************************************************************)
(* C29: in a run whose look resolves to json and whose final prep does not *)
(* end it, interact resolves to false from the final prep on, whichever    *)
(* layer had made it true: the default, the environment, the config file   *)
(* or an --interact flag on the command line.                              *)
(***************************************************************************)
C29_JSONTurnsInteractOff ==
    (PastFinalPrep /\ Get("look") = "json") => Get("interact") = "false"
(***************************************************************************)
(* C30: for every argument vector the pre-pass comes to an end: it parses  *)
(* the flags of the root once and goes down to a child only when the       *)
(* command word matched a subcommand, whose flags it parses once, and no   *)
(* further; a subcommand given by its name is always gone down to.  When   *)
(* the arguments are the program name alone there is no pre-pass, and the  *)
(* early output adjust runs all the same.                                  *)
(***************************************************************************)
C30_PrePassTerminates ==
    /\ pc = "prepCLIArgs" => ENABLED PrepCLIArgs
    /\ Went("prePass") =>
          /\ ArgsLen(args) # 1
          /\ Len(hist.parsed) \in {1, 2}
          /\ hist.parsed[1] = RootName
          /\ Len(hist.parsed) = 2 =>
                (hist.parsed[2] \in SubCommands /\ hist.parsed[2] = Named)
          /\ args.sub \in SubCommands => hist.parsed = <<RootName, args.sub>>
    /\ (ArgsLen(args) = 1 /\ pc # "prepCLIArgs") =>
          /\ ~Went("prePass") /\ hist.parsed = <<>> /\ pflags = {}
          /\ pc # "earlyAdjust" => (Went("earlyAdjust") /\ pass.n >= 1)

\* the pre-pass of a command line that names a subcommand is over
C30_Witness ==
    /\ pc = "earlyAdjust" /\ args.sub = "get" /\ Len(args.opts) = 2
    /\ hist.parsed = <<RootName, "get">>
====
